---- MODULE Spec2Model ----
(***************************************************************************)
(* KFPaleontologist (src/paleonotology.py): a read-only query facade over  *)
(* an ML-Metadata store plus a lineage-diagram builder.                    *)
(*                                                                         *)
(* Text is modelled as a sequence of tokens, so that an f-string is the    *)
(* concatenation of its literal pieces and of the rendering of its values. *)
(***************************************************************************)
EXTENDS Integers, Sequences, FiniteSets, TLC

VARIABLES store, held, op, args, calls, outcome, result

vars == <<store, held, op, args, calls, outcome, result>>

\* ------------------------------------------------------------------ bounds
MaxExec == 3
MaxArt == 2
MaxEvents == 2
MaxLineageEvents == 2
MaxMembers == 1

\* ------------------------------------------------------------------ text
Digit(d) ==
  CASE d = 0 -> "0" [] d = 1 -> "1" [] d = 2 -> "2" [] d = 3 -> "3" [] d = 4 -> "4"
    [] d = 5 -> "5" [] d = 6 -> "6" [] d = 7 -> "7" [] d = 8 -> "8" [] d = 9 -> "9"

DigitValue(c) ==
  CASE c = "0" -> 0 [] c = "1" -> 1 [] c = "2" -> 2 [] c = "3" -> 3 [] c = "4" -> 4
    [] c = "5" -> 5 [] c = "6" -> 6 [] c = "7" -> 7 [] c = "8" -> 8 [] c = "9" -> 9

Digits == {"0", "1", "2", "3", "4", "5", "6", "7", "8", "9"}

RECURSIVE IntToStr(_)
\* f'{n}' for a non-negative int: its decimal digits
IntToStr(n) ==
  IF n < 10 THEN <<Digit(n)>> ELSE IntToStr(n \div 10) \o <<Digit(n % 10)>>

RECURSIVE StrToInt(_)
\* the store's reading of a decimal literal
StrToInt(t) ==
  IF Len(t) = 0 THEN 0
  ELSE 10 * StrToInt(SubSeq(t, 1, Len(t) - 1)) + DigitValue(t[Len(t)])

IsDecimal(t) == Len(t) > 0 /\ \A i \in 1..Len(t) : t[i] \in Digits

Range(s) == {s[i] : i \in 1..Len(s)}

\* all sequences over S of length at most n
SeqsUpTo(S, n) == UNION {[1..k -> S] : k \in 0..n}

\* ------------------------------------------------------------------ store contents
RunIds == {"r1", "r2"}
StoredRunIds == {"r1"}
StepName == <<"step">>
Uris == {<<"u1">>, <<"u2">>}
PropertyVocabulary == {"string", "int", "double", "bool"}

RunName(run_id) == <<"run/", run_id>>

ParentProperty(p) ==
  [name |-> "parent_dag_id", kind |-> "int", int_value |-> p, string_value |-> <<>>]

\* the executions a pipeline engine writes: the root DAG of a run, a step under
\* an earlier execution, or an execution of another pipeline
ExecutionChoices(i) ==
  {[id |-> i, name |-> RunName(r), type |-> "system.DAGExecution",
    custom_properties |-> {}] : r \in StoredRunIds}
  \cup {[id |-> i, name |-> StepName, type |-> "system.ContainerExecution",
         custom_properties |-> {ParentProperty(p)}] : p \in 1..(i - 1)}
  \cup {[id |-> i, name |-> StepName, type |-> "system.ContainerExecution",
         custom_properties |-> {}]}

RECURSIVE ExecutionListingsOf(_)
ExecutionListingsOf(n) ==
  IF n = 0 THEN {<<>>}
  ELSE {Append(e, x) : e \in ExecutionListingsOf(n - 1), x \in ExecutionChoices(n)}

ExecutionListings == UNION {ExecutionListingsOf(n) : n \in 0..MaxExec}

ArtifactUri(i) == <<"gs://bucket/">> \o IntToStr(i)

Artifact(i, uri) ==
  [id |-> i, uri |-> uri, type |-> "system.Dataset", custom_properties |-> {}]

\* n artifacts, each at its own URI
Artifacts(n) == [i \in 1..n |-> Artifact(i, ArtifactUri(i))]

\* artifacts that may share a URI
RECURSIVE ArtifactListingsOf(_)
ArtifactListingsOf(n) ==
  IF n = 0 THEN {<<>>}
  ELSE {Append(a, Artifact(n, u)) : a \in ArtifactListingsOf(n - 1), u \in Uris}

ArtifactListings == UNION {ArtifactListingsOf(n) : n \in 0..MaxArt}

\* An artifact's first event is the OUTPUT of the execution that produced it,
\* its later events the INPUT of the executions that read it.
Typed(links) ==
  [i \in 1..Len(links) |->
     [artifact_id |-> links[i][1], execution_id |-> links[i][2],
      type |-> IF \E j \in 1..(i - 1) : links[j][1] = links[i][1] THEN "INPUT" ELSE "OUTPUT"]]

\* every event references an existing artifact id and execution id
EventListings(nArt, nExec) ==
  {Typed(links) : links \in SeqsUpTo((1..nArt) \X (1..nExec), MaxEvents)}

StoreOf(a, e, ev) ==
  [artifacts |-> a, executions |-> e, events |-> ev,
   contexts |-> <<>>, attributions |-> <<>>, associations |-> <<>>]

EmptyStore == StoreOf(<<>>, <<>>, <<>>)

\* a run of one step
RootAndStep ==
  <<[id |-> 1, name |-> RunName("r1"), type |-> "system.DAGExecution", custom_properties |-> {}],
    [id |-> 2, name |-> StepName, type |-> "system.ContainerExecution",
     custom_properties |-> {ParentProperty(1)}]>>

EmptyLineage ==
  [artifacts |-> <<>>, executions |-> <<>>, events |-> <<>>,
   contexts |-> <<>>, attributions |-> <<>>, associations |-> <<>>]

\* ------------------------------------------------------------------ store reads
\* MetadataStore.get_artifacts_by_id / get_executions_by_id: the records whose
\* id was asked for.  The client leaves open whether an id asked for twice
\* is answered twice, so both answers are possible.
RECURSIVE PerIdReply(_, _)
PerIdReply(listing, ids) ==
  IF Len(ids) = 0 THEN <<>>
  ELSE SelectSeq(listing, LAMBDA r : r.id = Head(ids)) \o PerIdReply(listing, Tail(ids))

DistinctReply(listing, ids) == SelectSeq(listing, LAMBDA r : r.id \in Range(ids))

StoreByIdReplies(listing, ids) == {PerIdReply(listing, ids), DistinctReply(listing, ids)}

\* MetadataStore.get_events_by_execution_ids / get_events_by_artifact_ids
StoreEventsByExecutionIds(s, ids) ==
  SelectSeq(s.events, LAMBDA ev : ev.execution_id \in Range(ids))

StoreEventsByArtifactIds(s, ids) ==
  SelectSeq(s.events, LAMBDA ev : ev.artifact_id \in Range(ids))

StoreArtifactsByUri(s, uri) == SelectSeq(s.artifacts, LAMBDA a : a.uri = uri)

StoreByType(listing, type_name) == SelectSeq(listing, LAMBDA r : r.type = type_name)

\* The store's reading of a filter_query.
IsNameFilter(f) == Len(f) >= 2 /\ f[1] = "name=\"" /\ f[Len(f)] = "\""

IsPropertyFilter(f) ==
  Len(f) >= 5 /\ f[1] = "custom_properties." /\ f[3] = "." /\ f[5] \in {"_value=", "_value=\""}

FilterQuoted(f) == f[5] = "_value=\""

FilterLiteral(f) ==
  IF FilterQuoted(f) THEN SubSeq(f, 6, Len(f) - 1) ELSE SubSeq(f, 6, Len(f))

PropertyMatches(r, f) ==
  \E cp \in r.custom_properties :
    /\ cp.name = f[2]
    /\ cp.kind = f[4]
    /\ IF cp.kind = "int"
       THEN IsDecimal(FilterLiteral(f)) /\ cp.int_value = StrToInt(FilterLiteral(f))
       ELSE cp.string_value = FilterLiteral(f)

\* MetadataStore.get_executions / get_artifacts with ListOptions(filter_query):
\* the possible answers, each [status, records].
StoreListReplies(listing, f) ==
  IF IsNameFilter(f)
  THEN {[status |-> "ok",
         records |-> SelectSeq(listing, LAMBDA r : r.name = SubSeq(f, 2, Len(f) - 1))]}
  ELSE IF IsPropertyFilter(f) /\ f[4] \in PropertyVocabulary
  THEN {[status |-> "ok", records |-> SelectSeq(listing, LAMBDA r : PropertyMatches(r, f))]}
       \cup (IF FilterQuoted(f) /\ f[4] # "string"
             THEN {[status |-> "rejected", records |-> <<>>]} ELSE {})
  ELSE {[status |-> "rejected", records |-> <<>>]}

\* MetadataStore.get_lineage_subgraph starting at one artifact: what is linked
\* to it through events.
RECURSIVE LineageArtifactIds(_, _, _)
LineageArtifactIds(s, ids, hops) ==
  LET execs == {ev.execution_id : ev \in {e \in Range(s.events) : e.artifact_id \in ids}}
      more  == ids \cup {ev.artifact_id : ev \in {e \in Range(s.events) : e.execution_id \in execs}}
  IN IF hops = 0 \/ more = ids THEN ids ELSE LineageArtifactIds(s, more, hops - 1)

StoreLineage(s, artifact_id) ==
  LET start == {a.id : a \in {x \in Range(s.artifacts) : x.id = artifact_id}}
      aids  == LineageArtifactIds(s, start, Len(s.events))
      evs   == SelectSeq(s.events, LAMBDA ev : ev.artifact_id \in aids)
      eids  == {ev.execution_id : ev \in Range(evs)}
  IN [artifacts    |-> SelectSeq(s.artifacts, LAMBDA a : a.id \in aids),
      executions   |-> SelectSeq(s.executions, LAMBDA e : e.id \in eids),
      events       |-> evs,
      contexts     |-> s.contexts,
      attributions |-> SelectSeq(s.attributions, LAMBDA at : at.artifact_id \in aids),
      associations |-> SelectSeq(s.associations, LAMBDA asn : asn.execution_id \in eids)]

StoreReadApis ==
  {"get_executions", "get_artifacts", "get_events_by_execution_ids",
   "get_events_by_artifact_ids", "get_artifacts_by_id", "get_executions_by_id",
   "get_artifacts_by_uri", "get_artifacts_by_type", "get_executions_by_type",
   "get_lineage_subgraph"}

\* What a call does to the contents: a read leaves them as they are, anything
\* else is a write (modelled as one more artifact).
StoreApply(s, call) ==
  IF call.api \in StoreReadApis THEN s
  ELSE [s EXCEPT !.artifacts = Append(@, Artifact(Len(@) + 1, ArtifactUri(Len(@) + 1)))]

RECURSIVE StoreAfter(_, _)
StoreAfter(s, made) ==
  IF Len(made) = 0 THEN s ELSE StoreAfter(StoreApply(s, Head(made)), Tail(made))

Call(api, arg) == [api |-> api, arg |-> arg]

Return(c, o, r) == [calls |-> c, outcome |-> o, result |-> r]

Ids(s) == [i \in 1..Len(s) |-> s[i].id]

\* ------------------------------------------------------------------ the facade
NameFilter(run_id) == <<"name=\"">> \o RunName(run_id) \o <<"\"">>

ParentFilter(id) == <<"custom_properties.", "parent_dag_id", ".", "int", "_value=">> \o IntToStr(id)

\* [x for x in s if x not in earlier]
RECURSIVE Dedup(_)
Dedup(s) ==
  IF Len(s) = 0 THEN <<>>
  ELSE LET front == Dedup(SubSeq(s, 1, Len(s) - 1))
       IN IF s[Len(s)] \in Range(front) THEN front ELSE Append(front, s[Len(s)])

\* as get_executions, the root put after its children
get_executions_root_last(s, run_id) ==
  LET run_executions == (CHOOSE r \in StoreListReplies(s.executions, NameFilter(run_id)) : TRUE).records
      first_call == Call("get_executions", NameFilter(run_id))
  IN IF Len(run_executions) = 0
     THEN {Return(<<first_call>>, "IndexError", <<>>)}
     ELSE LET run_execution_id == run_executions[1].id
              second == ParentFilter(run_execution_id)
          IN {Return(<<first_call, Call("get_executions", second)>>, "ok",
                     rep.records \o <<run_executions[1]>>) :
                rep \in StoreListReplies(s.executions, second)}

\* get_executions(run_id): the possible returns
get_executions(s, run_id) ==
  LET run_executions == (CHOOSE r \in StoreListReplies(s.executions, NameFilter(run_id)) : TRUE).records
      first_call == Call("get_executions", NameFilter(run_id))
  IN IF Len(run_executions) = 0
     THEN {Return(<<first_call>>, "IndexError", <<>>)}
     ELSE LET run_execution_id == run_executions[1].id
              second == ParentFilter(run_execution_id)
          IN {Return(<<first_call, Call("get_executions", second)>>, "ok",
                     <<run_executions[1]>> \o rep.records) :
                rep \in StoreListReplies(s.executions, second)}

\* as get_artifacts_from_run, each artifact id asked for once
get_artifacts_from_run_distinct(s, run_id) ==
  UNION {IF ex.outcome # "ok" THEN {ex}
         ELSE LET container_execution_ids == Ids(ex.result)
                  events == StoreEventsByExecutionIds(s, container_execution_ids)
                  artifact_ids == Dedup([i \in 1..Len(events) |-> events[i].artifact_id])
                  made == ex.calls \o <<Call("get_events_by_execution_ids", container_execution_ids),
                                        Call("get_artifacts_by_id", artifact_ids)>>
              IN {Return(made, "ok", artifacts) :
                    artifacts \in StoreByIdReplies(s.artifacts, artifact_ids)}
         : ex \in get_executions(s, run_id)}

\* get_artifacts_from_run(run_id)
get_artifacts_from_run(s, run_id) ==
  UNION {IF ex.outcome # "ok" THEN {ex}
         ELSE LET container_execution_ids == Ids(ex.result)
                  events == StoreEventsByExecutionIds(s, container_execution_ids)
                  artifact_ids == [i \in 1..Len(events) |-> events[i].artifact_id]
                  made == ex.calls \o <<Call("get_events_by_execution_ids", container_execution_ids),
                                        Call("get_artifacts_by_id", artifact_ids)>>
              IN {Return(made, "ok", artifacts) :
                    artifacts \in StoreByIdReplies(s.artifacts, artifact_ids)}
         : ex \in get_executions(s, run_id)}

\* get_artifacts_from_execution(execution_id)
get_artifacts_from_execution(s, execution_id) ==
  LET events == StoreEventsByExecutionIds(s, <<execution_id>>)
      artifact_ids == [i \in 1..Len(events) |-> events[i].artifact_id]
      made == <<Call("get_events_by_execution_ids", <<execution_id>>),
                Call("get_artifacts_by_id", artifact_ids)>>
  IN {Return(made, "ok", artifacts) : artifacts \in StoreByIdReplies(s.artifacts, artifact_ids)}

\* as get_artifact_execution_history, each execution id asked for once
get_artifact_execution_history_distinct(s, artifact_id) ==
  LET events == StoreEventsByArtifactIds(s, <<artifact_id>>)
      execution_ids == Dedup([i \in 1..Len(events) |-> events[i].execution_id])
      made == <<Call("get_events_by_artifact_ids", <<artifact_id>>),
                Call("get_executions_by_id", execution_ids)>>
  IN {Return(made, "ok", executions) : executions \in StoreByIdReplies(s.executions, execution_ids)}

\* get_artifact_execution_history(artifact_id)
get_artifact_execution_history(s, artifact_id) ==
  LET events == StoreEventsByArtifactIds(s, <<artifact_id>>)
      execution_ids == [i \in 1..Len(events) |-> events[i].execution_id]
      made == <<Call("get_events_by_artifact_ids", <<artifact_id>>),
                Call("get_executions_by_id", execution_ids)>>
  IN {Return(made, "ok", executions) : executions \in StoreByIdReplies(s.executions, execution_ids)}

\* as get_artifact_lineage, through the store's call that writes a subgraph
get_artifact_lineage_put(s, artifact_id) ==
  {Return(<<Call("put_lineage_subgraph", <<"id = ">> \o IntToStr(artifact_id))>>, "ok",
          StoreLineage(s, artifact_id))}

\* get_artifact_lineage(artifact_id)
get_artifact_lineage(s, artifact_id) ==
  {Return(<<Call("get_lineage_subgraph", <<"id = ">> \o IntToStr(artifact_id))>>, "ok",
          StoreLineage(s, artifact_id))}

\* artifacts[0] / executions[0]
FirstOf(call, records) ==
  IF Len(records) = 0 THEN Return(<<call>>, "IndexError", <<>>)
  ELSE Return(<<call>>, "ok", records[1])

\* get_artifact_by_id(artifact_id)
get_artifact_by_id(s, artifact_id) ==
  {FirstOf(Call("get_artifacts_by_id", <<artifact_id>>), artifacts) :
     artifacts \in StoreByIdReplies(s.artifacts, <<artifact_id>>)}

\* get_artifact_by_uri(artifact_uri)
get_artifact_by_uri(s, artifact_uri) ==
  {FirstOf(Call("get_artifacts_by_uri", artifact_uri), StoreArtifactsByUri(s, artifact_uri))}

\* get_execution_by_id(execution_id)
get_execution_by_id(s, execution_id) ==
  {FirstOf(Call("get_executions_by_id", <<execution_id>>), executions) :
     executions \in StoreByIdReplies(s.executions, <<execution_id>>)}

\* get_artifacts_by_type(artifact_type)
get_artifacts_by_type(s, artifact_type) ==
  {Return(<<Call("get_artifacts_by_type", <<artifact_type>>)>>, "ok",
          StoreByType(s.artifacts, artifact_type))}

\* get_executions_by_type(execution_type)
get_executions_by_type(s, execution_type) ==
  {Return(<<Call("get_executions_by_type", <<execution_type>>)>>, "ok",
          StoreByType(s.executions, execution_type))}

\* ------------------------------------------------------------------ property filters
\* a Python value: its type, and its payload as an int or as text
PyValue(t, n, txt) == [pytype |-> t, int |-> n, text |-> txt]

PropertyValues ==
  {PyValue("int", n, <<>>) : n \in {1, 12}}
  \cup {PyValue("str", 0, txt) : txt \in {<<"alice">>, <<"5">>}}
  \cup {PyValue("float", 0, <<"0", ".", "5">>), PyValue("bool", 1, <<>>),
        PyValue("NoneType", 0, <<>>), PyValue("list", 0, <<>>)}

PropertyNames == {"parent_dag_id", "epoch"}

\* type(value).__name__
TypeName(value) == value.pytype

\* str.lower() on the type names
Lower(name) == IF name = "NoneType" THEN "nonetype" ELSE name

\* f'{value}'
Str(value) ==
  CASE value.pytype = "int" -> IntToStr(value.int)
    [] value.pytype = "str" -> value.text
    [] value.pytype = "float" -> value.text
    [] value.pytype = "bool" -> IF value.int = 1 THEN <<"True">> ELSE <<"False">>
    [] value.pytype = "NoneType" -> <<"None">>
    [] value.pytype = "list" -> <<"[", "]">>

\* as property_type, every value taken for a string
property_type_string(value) == "string"

property_type(value) ==
  IF TypeName(value) = "str" THEN "string" ELSE Lower(TypeName(value))

PropertyFilter(custom_property, value) ==
  <<"custom_properties.", custom_property, ".", property_type(value), "_value=\"">>
    \o Str(value) \o <<"\"">>

ListByFilter(api, listing, f) ==
  {Return(<<Call(api, f)>>, IF rep.status = "ok" THEN "ok" ELSE "StoreError", rep.records) :
     rep \in StoreListReplies(listing, f)}

\* get_artifacts_by_custom_property(custom_property, value)
get_artifacts_by_custom_property(s, custom_property, value) ==
  ListByFilter("get_artifacts", s.artifacts, PropertyFilter(custom_property, value))

\* get_executions_by_custom_property(custom_property, value)
get_executions_by_custom_property(s, custom_property, value) ==
  ListByFilter("get_executions", s.executions, PropertyFilter(custom_property, value))

\* ------------------------------------------------------------------ the visualizer
FlagArgs == {"omitted", "true", "false"}

\* as Flag, with the flags on by default
Flag_default_on(arg) == arg # "false"

\* display_association: bool = False, display_attribution: bool = False
Flag(arg) == IF arg = "omitted" THEN FALSE ELSE arg = "true"

Node(name, label, shape, color) ==
  [name |-> name, label |-> label, shape |-> shape, style |-> "filled", color |-> color]

Edge(tail, head, label) == [tail |-> tail, head |-> head, label |-> label]

ArtifactNode(id) == <<"Artifact-">> \o IntToStr(id)
ExecutionNode(id) == <<"Execution-">> \o IntToStr(id)
ContextNode(id) == <<"Context-">> \o IntToStr(id)

\* as EventEdge, every event that is not an INPUT drawn as an output
EventEdge_else_output(event) ==
  IF event.type = "INPUT"
  THEN <<Edge(ArtifactNode(event.artifact_id), ExecutionNode(event.execution_id), "input")>>
  ELSE <<Edge(ExecutionNode(event.execution_id), ArtifactNode(event.artifact_id), "output")>>

EventEdge(event) ==
  IF event.type = "INPUT"
  THEN <<Edge(ArtifactNode(event.artifact_id), ExecutionNode(event.execution_id), "input")>>
  ELSE IF event.type = "OUTPUT"
  THEN <<Edge(ExecutionNode(event.execution_id), ArtifactNode(event.artifact_id), "output")>>
  ELSE <<>>

RECURSIVE EventEdges(_)
EventEdges(events) ==
  IF Len(events) = 0 THEN <<>> ELSE EventEdge(Head(events)) \o EventEdges(Tail(events))

AttributionEdges(lineage, display_attribution) ==
  IF display_attribution
  THEN [i \in 1..Len(lineage.attributions) |->
          Edge(ArtifactNode(lineage.attributions[i].artifact_id),
               ContextNode(lineage.attributions[i].context_id), "attribution")]
  ELSE <<>>

AssociationEdges(lineage, display_association) ==
  IF display_association
  THEN [i \in 1..Len(lineage.associations) |->
          Edge(ExecutionNode(lineage.associations[i].execution_id),
               ContextNode(lineage.associations[i].context_id), "association")]
  ELSE <<>>

\* the Digraph that visualize_lineage builds, statements in the order made
Diagram(lineage, display_association, display_attribution) ==
  [nodes |->
     [i \in 1..Len(lineage.artifacts) |->
        Node(ArtifactNode(lineage.artifacts[i].id),
             <<"Artifact: ">> \o lineage.artifacts[i].uri, "box", "lightblue")]
     \o [i \in 1..Len(lineage.executions) |->
           Node(ExecutionNode(lineage.executions[i].id),
                <<lineage.executions[i].type, ": ">> \o IntToStr(lineage.executions[i].id),
                "ellipse", "lightgreen")]
     \o [i \in 1..Len(lineage.contexts) |->
           Node(ContextNode(lineage.contexts[i].id),
                <<"Context: ">> \o lineage.contexts[i].name, "ellipse", "lightyellow")],
   edges |->
     EventEdges(lineage.events)
     \o AttributionEdges(lineage, display_attribution)
     \o AssociationEdges(lineage, display_association),
   filename |-> "lineage_graph",
   view |-> TRUE]

\* visualize_lineage(lineage, display_association, display_attribution): the
\* diagram is handed to the rendering backend, whose failure propagates
visualize_lineage(lineage, association_arg, attribution_arg) ==
  {Return(<<>>, o, Diagram(lineage, Flag(association_arg), Flag(attribution_arg))) :
     o \in {"ok", "BackendError"}}

\* ------------------------------------------------------------------ lineage inputs
LineageEventTypes == {"INPUT", "OUTPUT", "DECLARED_INPUT"}
LineageArtifactCounts == {0, 1, 2}
LineageExecutionCounts == {0, 1}
LineageContextCounts == {0, 1}

LineageExecutions(n) ==
  [i \in 1..n |-> [id |-> i, name |-> StepName, type |-> "system.ContainerExecution",
                   custom_properties |-> {}]]

LineageContexts(n) == [i \in 1..n |-> [id |-> i, name |-> RunName("r1")]]

LineageGraph(a, e, c, ev, at, asn) ==
  [artifacts |-> Artifacts(a), executions |-> LineageExecutions(e),
   contexts |-> LineageContexts(c), events |-> ev, attributions |-> at, associations |-> asn]

\* ------------------------------------------------------------------ the state machine
ArtifactTypeNames == {"system.Dataset", "system.Model"}
ExecutionTypeNames == {"system.DAGExecution", "system.ContainerExecution", "system.Importer"}

Init ==
  \* the contents vary one part at a time: the executions, the events of a
  \* run of one step, or the URIs of the artifacts
  /\ \/ \E e \in ExecutionListings : store = StoreOf(Artifacts(MaxArt), e, <<>>)
     \/ \E n \in 0..MaxArt : \E ev \in EventListings(n, Len(RootAndStep)) :
          store = StoreOf(Artifacts(n), RootAndStep, ev)
     \/ \E a \in ArtifactListings : store = StoreOf(a, <<>>, <<>>)
  /\ held = EmptyLineage
  /\ op = "none"
  /\ args = <<>>
  /\ calls = <<>>
  /\ outcome = "none"
  /\ result = <<>>

Do(name, a, returns) ==
  \E r \in returns :
    /\ op' = name
    /\ args' = a
    /\ calls' = r.calls
    /\ outcome' = r.outcome
    /\ result' = r.result
    /\ store' = StoreAfter(store, r.calls)

GetExecutions ==
  /\ \E run_id \in RunIds :
       Do("get_executions", [run_id |-> run_id], get_executions(store, run_id))
  /\ UNCHANGED held

GetArtifactsFromRun ==
  /\ \E run_id \in RunIds :
       Do("get_artifacts_from_run", [run_id |-> run_id], get_artifacts_from_run(store, run_id))
  /\ UNCHANGED held

GetArtifactsFromExecution ==
  /\ \E id \in 1..MaxExec :
       Do("get_artifacts_from_execution", [execution_id |-> id],
          get_artifacts_from_execution(store, id))
  /\ UNCHANGED held

GetArtifactExecutionHistory ==
  /\ \E id \in 1..MaxArt :
       Do("get_artifact_execution_history", [artifact_id |-> id],
          get_artifact_execution_history(store, id))
  /\ UNCHANGED held

\* the caller keeps the graph it is given
GetArtifactLineage ==
  /\ \E id \in 1..MaxArt :
       Do("get_artifact_lineage", [artifact_id |-> id], get_artifact_lineage(store, id))
  /\ held' = result'

GetArtifactById ==
  /\ \E id \in 1..(MaxArt + 1) :
       Do("get_artifact_by_id", [artifact_id |-> id], get_artifact_by_id(store, id))
  /\ UNCHANGED held

GetArtifactByUri ==
  /\ \E uri \in Uris \cup {ArtifactUri(1)} :
       Do("get_artifact_by_uri", [artifact_uri |-> uri], get_artifact_by_uri(store, uri))
  /\ UNCHANGED held

GetExecutionById ==
  /\ \E id \in 1..(MaxExec + 1) :
       Do("get_execution_by_id", [execution_id |-> id], get_execution_by_id(store, id))
  /\ UNCHANGED held

GetArtifactsByType ==
  /\ \E t \in ArtifactTypeNames :
       Do("get_artifacts_by_type", [artifact_type |-> t], get_artifacts_by_type(store, t))
  /\ UNCHANGED held

GetExecutionsByType ==
  /\ \E t \in ExecutionTypeNames :
       Do("get_executions_by_type", [execution_type |-> t], get_executions_by_type(store, t))
  /\ UNCHANGED held

GetArtifactsByCustomProperty ==
  /\ \E name \in PropertyNames, value \in PropertyValues :
       Do("get_artifacts_by_custom_property", [custom_property |-> name, value |-> value],
          get_artifacts_by_custom_property(store, name, value))
  /\ UNCHANGED held

GetExecutionsByCustomProperty ==
  /\ \E name \in PropertyNames, value \in PropertyValues :
       Do("get_executions_by_custom_property", [custom_property |-> name, value |-> value],
          get_executions_by_custom_property(store, name, value))
  /\ UNCHANGED held

\* the caller draws a graph it holds
VisualizeLineage ==
  /\ \E association_arg \in FlagArgs, attribution_arg \in FlagArgs :
       Do("visualize_lineage",
          [lineage |-> held, display_association |-> association_arg,
           display_attribution |-> attribution_arg],
          visualize_lineage(held, association_arg, attribution_arg))
  /\ UNCHANGED held

Next ==
  \/ GetExecutions
  \/ GetArtifactsFromRun
  \/ GetArtifactsFromExecution
  \/ GetArtifactExecutionHistory
  \/ GetArtifactLineage
  \/ GetArtifactById
  \/ GetArtifactByUri
  \/ GetExecutionById
  \/ GetArtifactsByType
  \/ GetExecutionsByType
  \/ GetArtifactsByCustomProperty
  \/ GetExecutionsByCustomProperty
  \/ VisualizeLineage

Spec == Init /\ [][Next]_vars

\* ---- the run queries over every listing of executions and events
InitRun ==
  /\ \E e \in ExecutionListings : \E ev \in EventListings(MaxArt, Len(e)) :
       store = StoreOf(Artifacts(MaxArt), e, ev)
  /\ held = EmptyLineage
  /\ op = "none"
  /\ args = <<>>
  /\ calls = <<>>
  /\ outcome = "none"
  /\ result = <<>>

NextRun == GetExecutions \/ GetArtifactsFromRun

SpecRun == InitRun /\ [][NextRun]_vars

\* ---- the visualizer over every lineage graph a caller can hold
InitVis ==
  /\ store = EmptyStore
  /\ \E a \in LineageArtifactCounts, e \in LineageExecutionCounts, c \in LineageContextCounts :
       \E ev \in SeqsUpTo([artifact_id : 1..a, execution_id : 1..e, type : LineageEventTypes],
                          MaxLineageEvents),
          at \in SeqsUpTo([artifact_id : 1..a, context_id : 1..c], MaxMembers),
          asn \in SeqsUpTo([execution_id : 1..e, context_id : 1..c], MaxMembers) :
         held = LineageGraph(a, e, c, ev, at, asn)
  /\ op = "none"
  /\ args = <<>>
  /\ calls = <<>>
  /\ outcome = "none"
  /\ result = <<>>

NextVis == VisualizeLineage

SpecVis == InitVis /\ [][NextVis]_vars

\* ------------------------------------------------------------------ properties
\* what the store holds, read off its contents
Named(s, run_id) == SelectSeq(s.executions, LAMBDA e : e.name = <<"run/", run_id>>)

HasParent(e, id) ==
  \E cp \in e.custom_properties :
    cp.name = "parent_dag_id" /\ cp.kind = "int" /\ cp.int_value = id

ChildrenOf(s, id) == SelectSeq(s.executions, LAMBDA e : HasParent(e, id))

RunExecutionIds(s, run_id) ==
  {Named(s, run_id)[1].id} \cup {e.id : e \in Range(ChildrenOf(s, Named(s, run_id)[1].id))}

RunEvents(s, run_id) ==
  SelectSeq(s.events, LAMBDA ev : ev.execution_id \in RunExecutionIds(s, run_id))

ArtifactEvents(s, artifact_id) == SelectSeq(s.events, LAMBDA ev : ev.artifact_id = artifact_id)

NoRepeat(ids) == \A i, j \in 1..Len(ids) : i # j => ids[i] # ids[j]

PropertyOps == {"get_artifacts_by_custom_property", "get_executions_by_custom_property"}

\* C1: with exactly one execution named run/{run_id} and N executions whose
\* parent_dag_id is its id, get_executions returns 1 + N records: the root,
\* then those N children in the order the store lists them.
C1_RootThenChildren ==
  (op = "get_executions" /\ Len(Named(store, args.run_id)) = 1) =>
    LET root == Named(store, args.run_id)[1]
        n == Cardinality({i \in 1..Len(store.executions) : HasParent(store.executions[i], root.id)})
    IN /\ outcome = "ok"
       /\ Len(result) = 1 + n
       /\ result[1] = root
       /\ SubSeq(result, 2, Len(result)) = ChildrenOf(store, root.id)

C1_Witness ==
  /\ op = "get_executions"
  /\ Len(Named(store, args.run_id)) = 1
  /\ Len(ChildrenOf(store, Named(store, args.run_id)[1].id)) >= 2
  /\ outcome = "ok"

\* C2: with no execution named run/{run_id}, get_executions ends in a named
\* NotFound error and does not issue the parent_dag_id query.
C2_NotFound ==
  (op = "get_executions" /\ Len(Named(store, args.run_id)) = 0) =>
    (outcome = "NotFound" /\ Len(calls) = 1)

\* C3, as claimed: get_artifacts_from_run returns one artifact entry per event
\* of the run's executions, in event order, an artifact of two events twice.
C3_OnePerEvent ==
  (op = "get_artifacts_from_run" /\ outcome = "ok") =>
    LET q == RunEvents(store, args.run_id)
    IN Len(result) = Len(q) /\ \A i \in 1..Len(q) : result[i].id = q[i].artifact_id

\* C3, as amended: get_artifacts_from_run asks the store for one artifact id
\* per event of the run's executions, in event order and without
\* deduplication, and returns the store's answer to that request: artifacts
\* of exactly the ids asked for.
C3_RequestsOnePerEvent ==
  (op = "get_artifacts_from_run" /\ outcome = "ok") =>
    LET q == RunEvents(store, args.run_id)
        last == calls[Len(calls)]
    IN /\ last.api = "get_artifacts_by_id"
       /\ last.arg = [i \in 1..Len(q) |-> q[i].artifact_id]
       /\ {result[i].id : i \in 1..Len(result)} = {q[i].artifact_id : i \in 1..Len(q)}

C3_Witness ==
  /\ op = "get_artifacts_from_run"
  /\ outcome = "ok"
  /\ LET q == RunEvents(store, args.run_id)
     IN /\ Len(q) = 2
        /\ q[1].artifact_id = q[2].artifact_id
        /\ q[1].execution_id # q[2].execution_id
        /\ calls[Len(calls)].arg = <<q[1].artifact_id, q[1].artifact_id>>
        /\ Len(result) = 2

\* f'{value}' of the values the property queries are given
ExpectedText(value) ==
  IF value.pytype = "str" THEN value.text
  ELSE IF value.int = 12 THEN <<"1", "2">> ELSE <<"1">>

\* C4: for an int or a string value both property queries send the filter
\* custom_properties.{name}.{typed}_value="{value}" with typed = int for an
\* int and string for a string, the one to the artifact listing and the
\* other to the execution listing.
C4_TypedFilter ==
  (op \in PropertyOps /\ args.value.pytype \in {"int", "str"}) =>
    /\ Len(calls) = 1
    /\ calls[1].api = (IF op = "get_artifacts_by_custom_property"
                       THEN "get_artifacts" ELSE "get_executions")
    /\ calls[1].arg =
         <<"custom_properties.", args.custom_property, ".",
           IF args.value.pytype = "int" THEN "int" ELSE "string", "_value=\"">>
         \o ExpectedText(args.value) \o <<"\"">>

C4_Witness ==
  /\ op = "get_artifacts_by_custom_property"
  /\ args.custom_property = "epoch"
  /\ args.value.pytype = "int"
  /\ args.value.int = 12
  /\ calls[1].arg = <<"custom_properties.", "epoch", ".", "int", "_value=\"", "1", "2", "\"">>

\* C5: get_artifact_by_uri ends in a named NotFound error when no artifact
\* has the URI, and returns the artifact when exactly one has it.
C5_ByUri ==
  op = "get_artifact_by_uri" =>
    LET found == SelectSeq(store.artifacts, LAMBDA a : a.uri = args.artifact_uri)
    IN /\ Len(found) = 0 => outcome = "NotFound"
       /\ Len(found) = 1 => (outcome = "ok" /\ result = found[1])

\* C6: a property query either sends a filter whose typed suffix is one of
\* string, int, double, bool, or ends in UnsupportedType without a query.
C6_SuffixInVocabulary ==
  op \in PropertyOps =>
    \/ Len(calls) = 1 /\ calls[1].arg[4] \in {"string", "int", "double", "bool"}
    \/ Len(calls) = 0 /\ outcome = "UnsupportedType"

NodeName(kind, id) == <<kind>> \o IntToStr(id)

EdgesLabelled(labels) == SelectSeq(result.edges, LAMBDA e : e.label \in labels)

EventsTyped(type) == SelectSeq(args.lineage.events, LAMBDA ev : ev.type = type)

NodesNamed(name) == {i \in 1..Len(result.nodes) : result.nodes[i].name = name}

\* C7: the diagram has exactly one node per artifact, execution and context;
\* one edge artifact -> execution labelled input per INPUT event and one edge
\* execution -> artifact labelled output per OUTPUT event, none for an event
\* of another type; with both flags off these are all the edges.
C7_NodesAndEventEdges ==
  op = "visualize_lineage" =>
    LET g == args.lineage
        ins == EdgesLabelled({"input"})
        outs == EdgesLabelled({"output"})
    IN /\ Len(result.nodes) = Len(g.artifacts) + Len(g.executions) + Len(g.contexts)
       /\ \A i \in 1..Len(g.artifacts) :
            Cardinality(NodesNamed(NodeName("Artifact-", g.artifacts[i].id))) = 1
       /\ \A i \in 1..Len(g.executions) :
            Cardinality(NodesNamed(NodeName("Execution-", g.executions[i].id))) = 1
       /\ \A i \in 1..Len(g.contexts) :
            Cardinality(NodesNamed(NodeName("Context-", g.contexts[i].id))) = 1
       /\ Len(ins) = Len(EventsTyped("INPUT"))
       /\ \A i \in 1..Len(ins) :
            /\ ins[i].tail = NodeName("Artifact-", EventsTyped("INPUT")[i].artifact_id)
            /\ ins[i].head = NodeName("Execution-", EventsTyped("INPUT")[i].execution_id)
       /\ Len(outs) = Len(EventsTyped("OUTPUT"))
       /\ \A i \in 1..Len(outs) :
            /\ outs[i].tail = NodeName("Execution-", EventsTyped("OUTPUT")[i].execution_id)
            /\ outs[i].head = NodeName("Artifact-", EventsTyped("OUTPUT")[i].artifact_id)
       /\ (args.display_association # "true" /\ args.display_attribution # "true") =>
            Len(result.edges) = Len(ins) + Len(outs)

C7_Witness ==
  /\ op = "visualize_lineage"
  /\ args.display_association = "omitted"
  /\ args.display_attribution = "omitted"
  /\ Len(args.lineage.artifacts) = 2
  /\ Len(args.lineage.executions) = 1
  /\ Len(args.lineage.contexts) = 0
  /\ args.lineage.events = <<[artifact_id |-> 1, execution_id |-> 1, type |-> "INPUT"],
                             [artifact_id |-> 2, execution_id |-> 1, type |-> "OUTPUT"]>>
  /\ Len(result.nodes) = 3
  /\ result.edges = <<[tail |-> <<"Artifact-", "1">>, head |-> <<"Execution-", "1">>, label |-> "input"],
                      [tail |-> <<"Execution-", "1">>, head |-> <<"Artifact-", "2">>, label |-> "output"]>>

\* C8: the diagram has one edge artifact -> context labelled attribution per
\* Attribution record exactly when display_attribution is given as true, and
\* one edge execution -> context labelled association per Association record
\* exactly when display_association is given as true; a flag left out is off,
\* and no flag changes the nodes, the event edges or the other flag's edges.
C8_FlagsIndependent ==
  op = "visualize_lineage" =>
    LET g == args.lineage
        attr == EdgesLabelled({"attribution"})
        assoc == EdgesLabelled({"association"})
    IN /\ Len(attr) = (IF args.display_attribution = "true" THEN Len(g.attributions) ELSE 0)
       /\ \A i \in 1..Len(attr) :
            /\ attr[i].tail = NodeName("Artifact-", g.attributions[i].artifact_id)
            /\ attr[i].head = NodeName("Context-", g.attributions[i].context_id)
       /\ Len(assoc) = (IF args.display_association = "true" THEN Len(g.associations) ELSE 0)
       /\ \A i \in 1..Len(assoc) :
            /\ assoc[i].tail = NodeName("Execution-", g.associations[i].execution_id)
            /\ assoc[i].head = NodeName("Context-", g.associations[i].context_id)
       /\ Len(result.nodes) = Len(g.artifacts) + Len(g.executions) + Len(g.contexts)
       /\ Len(EdgesLabelled({"input", "output"}))
            = Len(EventsTyped("INPUT")) + Len(EventsTyped("OUTPUT"))
       /\ Len(result.edges) = Len(EdgesLabelled({"input", "output"})) + Len(attr) + Len(assoc)

C8_Witness ==
  /\ op = "visualize_lineage"
  /\ args.display_attribution = "true"
  /\ args.display_association = "omitted"
  /\ Len(args.lineage.attributions) = 1
  /\ Len(args.lineage.associations) = 1
  /\ Len(args.lineage.events) = 2
  /\ Len(EdgesLabelled({"attribution"})) = 1
  /\ Len(EdgesLabelled({"association"})) = 0

\* C9: no operation of the facade, ended in an error or not, changes what the
\* store holds.
C9_StoreUnchanged == [][store' = store]_vars

C9_Witness ==
  /\ op = "get_artifact_by_uri"
  /\ outcome = "IndexError"
  /\ Len(calls) = 1
  /\ Len(store.artifacts) > 0

\* C10, as claimed: get_artifact_execution_history asks for, and returns,
\* each execution of the artifact's events once.
C10_DistinctIds ==
  op = "get_artifact_execution_history" =>
    /\ NoRepeat(calls[2].arg)
    /\ NoRepeat([i \in 1..Len(result) |-> result[i].id])

\* C10, as amended: get_artifact_execution_history asks the store for one
\* execution id per event of the artifact, in event order and without
\* deduplication, and returns the store's answer to that request: executions
\* of exactly the ids asked for.
C10_RequestsOnePerEvent ==
  op = "get_artifact_execution_history" =>
    LET q == ArtifactEvents(store, args.artifact_id)
    IN /\ Len(calls) = 2
       /\ calls[2].api = "get_executions_by_id"
       /\ calls[2].arg = [i \in 1..Len(q) |-> q[i].execution_id]
       /\ {result[i].id : i \in 1..Len(result)} = {q[i].execution_id : i \in 1..Len(q)}

C10_Witness ==
  /\ op = "get_artifact_execution_history"
  /\ LET q == ArtifactEvents(store, args.artifact_id)
     IN /\ Len(q) = 2
        /\ q[1].execution_id = q[2].execution_id
        /\ q[1].type = "OUTPUT"
        /\ q[2].type = "INPUT"
        /\ calls[2].arg = <<q[1].execution_id, q[1].execution_id>>

====
